---- MODULE Spec2Model ----
(***************************************************************************)
(* Finance_Analysis.py: clean a Federal Bank CSV export.                   *)
(*                                                                         *)
(* The script is one linear batch transform.  Each numbered section of the *)
(* script is one action here; pc is the script's position.                 *)
(*                                                                         *)
(* A text is a sequence of one-character strings.  A pandas DataFrame is a *)
(* record [cols, rows]: cols the column names in order, rows a sequence of *)
(* [label, src, vals] with vals aligned with cols; label is the row's      *)
(* index label, src the position of its line below the header, which the   *)
(* frame's first labels are and which is kept here after the sort relabels *)
(* the rows.  A float is an integer count of 1/Scale units; a nullable     *)
(* float is a record [nan, v].                                             *)
(*                                                                         *)
(* Every header drawn in Init has pairwise distinct column names, so that  *)
(* df[name] is always a single column.                                     *)
(***************************************************************************)
EXTENDS Integers, Sequences, FiniteSets, TLC

VARIABLES rows, pc, header_row_idx, header, df,
          slno_col, date_col, particol, withdraw_col, deposit_col,
          cleaned, exit_code, out_dir, out_file, arg, ret

vars == <<rows, pc, header_row_idx, header, df,
          slno_col, date_col, particol, withdraw_col, deposit_col,
          cleaned, exit_code, out_dir, out_file, arg, ret>>

(***************************************************************************)
(* Bounds of the model.                                                    *)
(***************************************************************************)
MaxRows == 2
MaxMoneyLen == 3
MaxDescLen == 5

(***************************************************************************)
(* Characters and texts.                                                   *)
(***************************************************************************)
Digits == <<"0", "1", "2", "3", "4", "5", "6", "7", "8", "9">>

UpperLetters == <<"A", "B", "C", "D", "E", "F", "G", "H", "I", "J", "K", "L", "M",
                  "N", "O", "P", "Q", "R", "S", "T", "U", "V", "W", "X", "Y", "Z">>

LowerLetters == <<"a", "b", "c", "d", "e", "f", "g", "h", "i", "j", "k", "l", "m",
                  "n", "o", "p", "q", "r", "s", "t", "u", "v", "w", "x", "y", "z">>

Range(s) == {s[i] : i \in DOMAIN s}

IsDigit(c) == c \in Range(Digits)

\* \w of the re module on the characters used here
IsWordChar(c) == c \in Range(Digits) \cup Range(UpperLetters) \cup Range(LowerLetters) \cup {"_"}

DigitVal(c) == (CHOOSE i \in DOMAIN Digits : Digits[i] = c) - 1

\* str.lower() on one character
LowerChar(c) ==
    IF c \in Range(UpperLetters)
    THEN LowerLetters[CHOOSE i \in DOMAIN UpperLetters : UpperLetters[i] = c]
    ELSE c

\* str.lower()
Lower(s) == [i \in DOMAIN s |-> LowerChar(s[i])]

\* str.strip(): drop leading and trailing blanks
Strip(s) ==
    LET keep == {i \in DOMAIN s : s[i] # " "}
    IN  IF keep = {} THEN <<>>
        ELSE SubSeq(s, CHOOSE i \in keep : \A j \in keep : i <= j,
                       CHOOSE i \in keep : \A j \in keep : j <= i)

\* the byte-order mark U+FEFF, one character
BOM == "<U+FEFF>"

\* c.encode("utf-8").decode("utf-8-sig"): drops one leading byte-order mark
DecodeSig(s) == IF Len(s) > 0 /\ s[1] = BOM THEN Tail(s) ELSE s

\* the value None of a cell that a short row leaves unfilled, and of a column not found
None == <<"<None>">>

\* str(x) of a cell
Str(x) == IF x = None THEN <<"N", "o", "n", "e">> ELSE x

\* t occurs in s starting at position i
OccursAt(s, t, i) == i >= 1 /\ i + Len(t) - 1 <= Len(s) /\ SubSeq(s, i, i + Len(t) - 1) = t

\* "t in s"
Contains(s, t) == \E i \in 1..(Len(s) + 1) : OccursAt(s, t, i)

\* " ".join(cells)
RECURSIVE Join(_)
Join(cells) ==
    IF Len(cells) = 0 THEN <<>>
    ELSE IF Len(cells) = 1 THEN cells[1]
    ELSE cells[1] \o <<" ">> \o Join(Tail(cells))

(***************************************************************************)
(* Numbers.                                                                *)
(***************************************************************************)
RECURSIVE Pow10(_)
Pow10(n) == IF n = 0 THEN 1 ELSE 10 * Pow10(n - 1)

\* floats are counted in units of 1/Scale: exact for every text drawn here
Scale == Pow10(MaxMoneyLen)

NaN == [nan |-> TRUE, v |-> 0]

Num(n) == [nan |-> FALSE, v |-> n]

\* value of a run of digits read as an integer
RECURSIVE IntOf(_)
IntOf(ds) == IF Len(ds) = 0 THEN 0 ELSE 10 * IntOf(SubSeq(ds, 1, Len(ds) - 1)) + DigitVal(ds[Len(ds)])

\* value, in 1/Scale units, of a run of digits read after the decimal point
RECURSIVE FracOf(_, _)
FracOf(ds, unit) ==
    IF Len(ds) = 0 \/ unit = 0 THEN 0
    ELSE DigitVal(ds[1]) * unit + FracOf(Tail(ds), unit \div 10)

\* the parser with a fault: also reads a trailing minus sign ("5-") as a sign
ToNumericAcceptTrailingMinus(x) ==
    LET s    == IF Len(x) > 0 /\ x[Len(x)] = "-" THEN <<"-">> \o SubSeq(x, 1, Len(x) - 1) ELSE x
        neg  == Len(s) > 0 /\ s[1] = "-"
        body == IF Len(s) > 0 /\ s[1] \in {"-", "+"} THEN Tail(s) ELSE s
        dots == {i \in DOMAIN body : body[i] = "."}
        dot  == IF dots = {} THEN Len(body) + 1 ELSE CHOOSE i \in dots : \A j \in dots : i <= j
        ip   == SubSeq(body, 1, dot - 1)
        fp   == SubSeq(body, dot + 1, Len(body))
        ok   == /\ x # None
                /\ \A i \in DOMAIN ip : IsDigit(ip[i])
                /\ \A i \in DOMAIN fp : IsDigit(fp[i])
                /\ Len(ip) + Len(fp) > 0
        mag  == IntOf(ip) * Scale + FracOf(fp, Scale \div 10)
    IN  IF ok THEN Num(IF neg THEN 0 - mag ELSE mag) ELSE NaN

\* the numeric parser of pd.to_numeric on one element, errors="coerce":
\* [sign] digits [. digits] with at least one digit, anything else NaN
ToNumeric(x) ==
    LET s    == x
        neg  == Len(s) > 0 /\ s[1] = "-"
        body == IF Len(s) > 0 /\ s[1] \in {"-", "+"} THEN Tail(s) ELSE s
        dots == {i \in DOMAIN body : body[i] = "."}
        dot  == IF dots = {} THEN Len(body) + 1 ELSE CHOOSE i \in dots : \A j \in dots : i <= j
        ip   == SubSeq(body, 1, dot - 1)
        fp   == SubSeq(body, dot + 1, Len(body))
        ok   == /\ x # None
                /\ \A i \in DOMAIN ip : IsDigit(ip[i])
                /\ \A i \in DOMAIN fp : IsDigit(fp[i])
                /\ Len(ip) + Len(fp) > 0
        mag  == IntOf(ip) * Scale + FracOf(fp, Scale \div 10)
    IN  IF ok THEN Num(IF neg THEN 0 - mag ELSE mag) ELSE NaN

\* the stripping with a fault: the character class [^\d\.] drops the minus signs too
RECURSIVE StripNonNumericDropMinus(_)
StripNonNumericDropMinus(s) ==
    IF Len(s) = 0 THEN <<>>
    ELSE IF IsDigit(s[1]) \/ s[1] = "."
         THEN <<s[1]>> \o StripNonNumericDropMinus(Tail(s))
         ELSE StripNonNumericDropMinus(Tail(s))

\* .str.replace(r"[^\d\.-]", "", regex=True): keep digits, dots and minus signs
RECURSIVE StripNonNumeric(_)
StripNonNumeric(s) ==
    IF Len(s) = 0 THEN <<>>
    ELSE IF IsDigit(s[1]) \/ s[1] \in {".", "-"}
         THEN <<s[1]>> \o StripNonNumeric(Tail(s))
         ELSE StripNonNumeric(Tail(s))

\* clean_number on one element: a float, never NaN
clean_number(x) ==
    LET stripped == StripNonNumeric(Str(x))
        cleaned_ == IF stripped = <<>> THEN <<"0">> ELSE stripped
        n        == ToNumeric(cleaned_)
    IN  IF n.nan THEN 0 ELSE n.v

(***************************************************************************)
(* Description extraction.                                                 *)
(***************************************************************************)
\* str.split("/")
RECURSIVE Split(_)
Split(s) ==
    LET cuts == {i \in DOMAIN s : s[i] = "/"}
    IN  IF cuts = {} THEN <<s>>
        ELSE LET c == CHOOSE i \in cuts : \A j \in cuts : i <= j
             IN  <<SubSeq(s, 1, c - 1)>> \o Split(SubSeq(s, c + 1, Len(s)))

\* the extraction with a fault: one segment too early
between_third_and_fourth_slash_Index2(x) ==
    LET parts == Split(Str(x))
    IN  IF Len(parts) > 2 THEN parts[3] ELSE x

\* lines 80-82
between_third_and_fourth_slash(x) ==
    LET parts == Split(Str(x))
    IN  IF Len(parts) > 3 THEN parts[4] ELSE x

(***************************************************************************)
(* Section 2: locating the header row.                                     *)
(***************************************************************************)
\* the test of line 33 on one row
Qualifies(row) ==
    LET lowered == [i \in DOMAIN row |-> Lower(Strip(row[i]))]
        joined  == Join(lowered)
    IN  /\ Contains(joined, <<"d", "a", "t", "e">>)
        /\ \/ Contains(joined, <<"p", "a", "r", "t", "i", "c", "u", "l", "a", "r">>)
           \/ Contains(joined, <<"n", "a", "r", "r", "a", "t", "i", "o", "n">>)
           \/ Contains(joined, <<"d", "e", "s", "c", "r", "i", "p", "t", "i", "o", "n">>)

\* the loop of lines 29-35: index (from 0) of the first qualifying row, -1 for None
LocateHeader(rs) ==
    LET hits == {i \in DOMAIN rs : Qualifies(rs[i])}
    IN  IF hits = {} THEN 0 - 1 ELSE (CHOOSE i \in hits : \A j \in hits : i <= j) - 1

\* line 40
NormalizeHeader(row) == [i \in DOMAIN row |-> Lower(Strip(DecodeSig(row[i])))]

(***************************************************************************)
(* Sections 3 and 4: keyword patterns and find().                          *)
(* A pattern is [kind, alts]: "sub" matches an alternative anywhere,       *)
(* "word" matches it between two \b, "start" matches it at the start.      *)
(***************************************************************************)
Sub(t) == [kind |-> "sub", alts |-> {t}]

Word(ts) == [kind |-> "word", alts |-> ts]

Start(t) == [kind |-> "start", alts |-> {t}]

\* pat.search(c) for one keyword
Matches(k, c) ==
    \E t \in k.alts :
        CASE k.kind = "sub"   -> Contains(c, t)
          [] k.kind = "start" -> OccursAt(c, t, 1)
          [] k.kind = "word"  ->
                \E i \in 1..Len(c) :
                    /\ OccursAt(c, t, i)
                    /\ i = 1 \/ ~IsWordChar(c[i - 1])
                    /\ i + Len(t) - 1 = Len(c) \/ ~IsWordChar(c[i + Len(t)])

\* re.compile("|".join(keywords)).search(c)
MatchesAny(keywords, c) == \E n \in DOMAIN keywords : Matches(keywords[n], c)

SlnoKeywords ==
    << Word({<<"s", "l">>}),
       Word({<<"s", "n", "o">>, <<"s", ".", "n", "o">>, <<"s", "_", "n", "o">>, <<"s", " ", "n", "o">>}),
       Word({<<"s", "e", "r", "i", "a", "l">>}),
       Word({<<"s", "r">>}),
       Word({<<"i", "n", "d", "e", "x">>}),
       Start(<<"u", "n", "n", "a", "m", "e", "d">>) >>

DateKeywords == << Sub(<<"d", "a", "t", "e">>) >>

PartiKeywords ==
    << Sub(<<"p", "a", "r", "t", "i", "c", "u", "l", "a", "r">>),
       Sub(<<"n", "a", "r", "r", "a", "t", "i", "o", "n">>),
       Sub(<<"d", "e", "s", "c", "r", "i", "p", "t", "i", "o", "n">>) >>

WithdrawKeywords == << Sub(<<"w", "i", "t", "h", "d", "r", "a", "w">>), Sub(<<"d", "e", "b", "i", "t">>) >>

DepositKeywords == << Sub(<<"d", "e", "p", "o", "s", "i", "t">>), Sub(<<"c", "r", "e", "d", "i", "t">>) >>

\* find with a fault: falls back on the first column when nothing matches
FindFirstColumnWhenNoMatch(cols, keywords) ==
    LET Hit(c)  == MatchesAny(keywords, c)
        matches == SelectSeq(cols, Hit)
    IN  IF Len(matches) > 0 THEN matches[1] ELSE cols[1]

\* find with a fault: the first keyword that matches any column wins, then the
\* leftmost column it matches
FindByPatternPriority(cols, keywords) ==
    LET hitk == {n \in DOMAIN keywords : \E i \in DOMAIN cols : Matches(keywords[n], cols[i])}
    IN  IF hitk = {} THEN None
        ELSE LET n    == CHOOSE m \in hitk : \A o \in hitk : m <= o
                 hitc == {i \in DOMAIN cols : Matches(keywords[n], cols[i])}
             IN  cols[CHOOSE i \in hitc : \A j \in hitc : i <= j]

\* find(keywords, ...): the first column, left to right, that the alternation matches;
\* None when there is none (the caller exits when the field is mandatory)
Find(cols, keywords) ==
    LET Hit(c)  == MatchesAny(keywords, c)
        matches == SelectSeq(cols, Hit)
    IN  IF Len(matches) > 0 THEN matches[1] ELSE None

(***************************************************************************)
(* DataFrame operations.                                                   *)
(***************************************************************************)
Max(S) == CHOOSE x \in S : \A y \in S : y <= x

\* pd.DataFrame(data, columns=header) raises unless the widest row has Len(columns) cells
FrameBuilds(data, columns) ==
    data = <<>> \/ Max({Len(data[i]) : i \in DOMAIN data}) = Len(columns)

\* pd.DataFrame(data, columns=header): short rows are filled with None
DataFrame(data, columns) ==
    [cols |-> columns,
     rows |-> [i \in DOMAIN data |->
                 [label |-> i - 1, src |-> i,
                  vals  |-> [c \in DOMAIN columns |->
                               IF c <= Len(data[i]) THEN data[i][c] ELSE None]]]]

\* .dropna(how="all")
DropNaAll(frame) ==
    LET Keep(r) == \E c \in DOMAIN r.vals : r.vals[c] # None
    IN  [frame EXCEPT !.rows = SelectSeq(frame.rows, Keep)]

HasCol(frame, name) == \E c \in DOMAIN frame.cols : frame.cols[c] = name

\* position of the column called name
Pos(frame, name) == CHOOSE c \in DOMAIN frame.cols : frame.cols[c] = name

\* df[names]
Select(frame, names) ==
    [cols |-> names,
     rows |-> [i \in DOMAIN frame.rows |->
                 [frame.rows[i] EXCEPT !.vals = [k \in DOMAIN names |-> frame.rows[i].vals[Pos(frame, names[k])]]]]]

\* df[name] = values: replaces the column, or appends it when new
Assign(frame, name, values) ==
    IF HasCol(frame, name)
    THEN [frame EXCEPT !.rows = [i \in DOMAIN frame.rows |->
                                   [frame.rows[i] EXCEPT !.vals[Pos(frame, name)] = values[i]]]]
    ELSE [cols |-> Append(frame.cols, name),
          rows |-> [i \in DOMAIN frame.rows |->
                      [frame.rows[i] EXCEPT !.vals = Append(frame.rows[i].vals, values[i])]]]

\* cleaned.insert(0, name, values)
InsertFirst(frame, name, values) ==
    [cols |-> <<name>> \o frame.cols,
     rows |-> [i \in DOMAIN frame.rows |->
                 [frame.rows[i] EXCEPT !.vals = <<values[i]>> \o frame.rows[i].vals]]]

\* cleaned.rename(columns={from: to})
Rename(frame, from, to) ==
    [frame EXCEPT !.cols = [c \in DOMAIN frame.cols |-> IF frame.cols[c] = from THEN to ELSE frame.cols[c]]]

\* the values of one column, top to bottom
ColumnOf(frame, name) == [i \in DOMAIN frame.rows |-> frame.rows[i].vals[Pos(frame, name)]]

(***************************************************************************)
(* Inputs: the CSV files the run is started on.                            *)
(* A layout is a header row with, for each column, the kind of cell the    *)
(* bank puts below it; a transaction is one statement line; a data row is  *)
(* a transaction laid out under a header, a blank line (no cell), or a     *)
(* line cut short.                                                         *)
(***************************************************************************)
TitleRow == <<<<"F", "e", "d", "e", "r", "a", "l", " ", "B", "a", "n", "k">>, <<>>>>

StdLayout ==
    [pre   |-> <<TitleRow>>,
     cells |-> <<<<"S", "l", ".", " ", "N", "o", ".">>, <<" ", "T", "r", "a", "n", " ", "D", "a", "t", "e", " ">>, <<"P", "a", "r", "t", "i", "c", "u", "l", "a", "r", "s">>,
                 <<"W", "i", "t", "h", "d", "r", "a", "w", "a", "l">>, <<"D", "e", "p", "o", "s", "i", "t">>>>,
     kinds |-> <<"serial", "date", "desc", "wd", "dep">>]

NoSerialLayout ==
    [pre   |-> <<>>,
     cells |-> <<<<BOM>> \o <<"D", "a", "t", "e">>, <<"N", "a", "r", "r", "a", "t", "i", "o", "n">>, <<"D", "e", "b", "i", "t">>, <<"C", "r", "e", "d", "i", "t">>>>,
     kinds |-> <<"date", "desc", "wd", "dep">>]

TwoDebitLayout ==
    [pre   |-> <<>>,
     cells |-> <<<<"S", "r">>, <<"V", "a", "l", "u", "e", " ", "D", "a", "t", "e">>, <<"D", "e", "s", "c", "r", "i", "p", "t", "i", "o", "n">>,
                 <<"D", "e", "b", "i", "t">>, <<"W", "i", "t", "h", "d", "r", "a", "w", "a", "l", " ", "R", "e", "f">>, <<"C", "r", "e", "d", "i", "t">>>>,
     kinds |-> <<"serial", "date", "desc", "wd", "ref", "dep">>]

NoDebitLayout ==
    [pre   |-> <<>>,
     cells |-> <<<<"D", "a", "t", "e">>, <<"P", "a", "r", "t", "i", "c", "u", "l", "a", "r", "s">>, <<"C", "r", "e", "d", "i", "t">>>>,
     kinds |-> <<"date", "desc", "dep">>]

NoHeaderLayout ==
    [pre   |-> <<TitleRow>>,
     cells |-> <<>>,
     kinds |-> <<"serial", "date", "desc", "wd", "dep">>]

Layouts == {StdLayout, NoSerialLayout, TwoDebitLayout, NoDebitLayout, NoHeaderLayout}

Rupee == "₹"

Tx1 == [serial |-> <<"1">>, date |-> <<"0", "1", "-", "0", "4">>, desc |-> <<"U", "P", "I", "/", "1", "2", "3", "/", "4", "5", "6", "/", "G", "R", "O", "C", "E", "R", "Y", "/", "7", "8", "9">>,
        wd |-> <<"5", "0", "0", ".", "0", "0">>, dep |-> <<>>, ref |-> <<"7">>]

Tx2 == [serial |-> <<"2">>, date |-> <<"0", "2", "-", "0", "4">>, desc |-> <<"C", "A", "S", "H", " ", "D", "E", "P", "O", "S", "I", "T">>,
        wd |-> <<>>, dep |-> <<Rupee>> \o <<"1", ",", "2", "3", "4", ".", "5", "0">>, ref |-> <<>>]

Tx3 == [serial |-> <<>>, date |-> <<"0", "3", "-", "0", "4">>, desc |-> <<"a", "/", "b", "/", "c">>,
        wd |-> <<"a", "b", "c">>, dep |-> <<"-", "5">>, ref |-> <<>>]

TxEmpty == [serial |-> <<>>, date |-> <<>>, desc |-> <<>>, wd |-> <<>>, dep |-> <<>>, ref |-> <<>>]

Transactions == {Tx1, Tx2, Tx3, TxEmpty}

\* the CSV line of a transaction under a layout
LayOut(layout, tx) == [c \in DOMAIN layout.kinds |-> tx[layout.kinds[c]]]

\* the lines a statement may hold below its header
DataRows(layout) ==
    {LayOut(layout, tx) : tx \in Transactions}
        \cup {<<>>}
        \cup {SubSeq(LayOut(layout, Tx2), 1, 2)}

SeqsUpTo(S, n) == UNION {[1..k -> S] : k \in 0..n}

FileOf(layout, data) ==
    layout.pre \o (IF layout.cells = <<>> THEN <<>> ELSE <<layout.cells>>) \o data

\* the statement 1, "", "", 2 of serial numbers
GapExample == FileOf(StdLayout, <<LayOut(StdLayout, Tx1), LayOut(StdLayout, Tx3),
                                  LayOut(StdLayout, Tx3), LayOut(StdLayout, Tx2)>>)

InputFiles ==
    UNION {{FileOf(layout, data) : data \in SeqsUpTo(DataRows(layout), MaxRows)} : layout \in Layouts}
        \cup {GapExample}

(***************************************************************************)
(* The run.                                                                *)
(***************************************************************************)
EmptyFrame == [cols |-> <<>>, rows |-> <<>>]

Running == 0 - 1

AmountName == <<"a", "m", "o", "u", "n", "t">>

SlNoName == <<"S", "l", ".", " ", "N", "o", ".">>

TranDateName == <<"T", "r", "a", "n", " ", "D", "a", "t", "e">>

ParticularsName == <<"P", "a", "r", "t", "i", "c", "u", "l", "a", "r", "s">>

\* line 68
fabricate_slno == slno_col = None

\* rows[header_row_idx + 1 :]
DataBelow(rs, idx) == SubSeq(rs, idx + 2, Len(rs))

\* the fabricated serials with a fault: range(n)
FabricatedSerialsFromZero(n) == [i \in 1..n |-> Num((i - 1) * Scale)]

\* range(1, n + 1) of line 114
FabricatedSerials(n) == [i \in 1..n |-> Num(i * Scale)]

\* the fill with a fault: method="bfill", a NaN takes the next value below it
RECURSIVE BackFill(_)
BackFill(values) ==
    IF Len(values) = 0 THEN <<>>
    ELSE LET rest == BackFill(Tail(values))
         IN  IF values[1].nan /\ Len(rest) > 0 THEN <<rest[1]>> \o rest
             ELSE <<values[1]>> \o rest

\* .fillna(method="ffill"): a NaN takes the last value above it, if any
RECURSIVE ForwardFill(_)
ForwardFill(values) ==
    IF Len(values) = 0 THEN <<>>
    ELSE LET above == ForwardFill(SubSeq(values, 1, Len(values) - 1))
             last  == values[Len(values)]
         IN  IF last.nan /\ Len(above) > 0 THEN Append(above, above[Len(above)])
             ELSE Append(above, last)

\* sort_values("Sl. No."), kind="quicksort" (the default, not a stable sort),
\* na_position="last": every order of the rows in which the numbers ascend and the
\* NaN rows follow, these in their prior order (nargsort never sorts them)
SortOrders(keys) ==
    LET n == Len(keys)
    IN  {p \in [1..n -> 1..n] :
            /\ \A i, j \in 1..n : i # j => p[i] # p[j]
            /\ \A i, j \in 1..n : i < j =>
                   \/ /\ ~keys[p[i]].nan
                      /\ keys[p[j]].nan \/ keys[p[i]].v <= keys[p[j]].v
                   \/ /\ keys[p[i]].nan /\ keys[p[j]].nan
                      /\ p[i] < p[j]}

\* the amount with a fault: the operands exchanged
AmountFlipped(deposit, withdrawal) == withdrawal - deposit

\* the amount of line 107, from the two cleaned floats
Amount(deposit, withdrawal) == deposit - withdrawal

Init ==
    /\ rows \in InputFiles
    /\ pc = "read"
    /\ header_row_idx = Running
    /\ header = <<>>
    /\ df = EmptyFrame
    /\ slno_col = None /\ date_col = None /\ particol = None
    /\ withdraw_col = None /\ deposit_col = None
    /\ cleaned = EmptyFrame
    /\ exit_code = Running
    /\ \E old \in BOOLEAN :
          /\ out_dir = old
          /\ out_file = [state |-> IF old THEN "old" ELSE "absent", cols |-> <<>>, data |-> <<>>]
    /\ arg = <<>>
    /\ ret = <<>>

\* lines 29-35
Scan ==
    /\ pc = "read"
    /\ header_row_idx' = LocateHeader(rows)
    /\ pc' = "scanned"
    /\ UNCHANGED <<rows, header, df, slno_col, date_col, particol, withdraw_col, deposit_col,
                   cleaned, exit_code, out_dir, out_file, arg, ret>>

\* lines 37-38
ExitNoHeader ==
    /\ pc = "scanned"
    /\ header_row_idx < 0
    /\ pc' = "exited"
    /\ exit_code' = 1
    /\ UNCHANGED <<rows, header_row_idx, header, df, slno_col, date_col, particol, withdraw_col,
                   deposit_col, cleaned, out_dir, out_file, arg, ret>>

\* lines 40-43
BuildFrame ==
    /\ pc = "scanned"
    /\ header_row_idx >= 0
    /\ header' = NormalizeHeader(rows[header_row_idx + 1])
    /\ IF FrameBuilds(DataBelow(rows, header_row_idx), header')
       THEN /\ df' = DropNaAll(DataFrame(DataBelow(rows, header_row_idx), header'))
            /\ pc' = "framed"
            /\ UNCHANGED exit_code
       ELSE /\ df' = df
            /\ pc' = "raised"
            /\ exit_code' = 1
    /\ UNCHANGED <<rows, header_row_idx, slno_col, date_col, particol, withdraw_col, deposit_col,
                   cleaned, out_dir, out_file, arg, ret>>

\* lines 62-68: the five calls of find, in order; a mandatory field not found exits
\* at once, and the calls after it are never made
IdentifyColumns ==
    /\ pc = "framed"
    /\ LET s == Find(df.cols, SlnoKeywords)
           d == Find(df.cols, DateKeywords)
           p == Find(df.cols, PartiKeywords)
           w == Find(df.cols, WithdrawKeywords)
           c == Find(df.cols, DepositKeywords)
       IN  /\ slno_col' = s
           /\ date_col' = d
           /\ particol' = IF d = None THEN None ELSE p
           /\ withdraw_col' = IF None \in {d, p} THEN None ELSE w
           /\ deposit_col' = IF None \in {d, p, w} THEN None ELSE c
           /\ IF None \in {d, p, w, c}
              THEN pc' = "exited" /\ exit_code' = 1
              ELSE pc' = "identified" /\ UNCHANGED exit_code
    /\ UNCHANGED <<rows, header_row_idx, header, df, cleaned, out_dir, out_file, arg, ret>>

\* line 84
CleanParticulars ==
    /\ pc = "identified"
    /\ df' = Assign(df, particol,
                    [i \in DOMAIN df.rows |-> between_third_and_fourth_slash(ColumnOf(df, particol)[i])])
    /\ pc' = "extracted"
    /\ UNCHANGED <<rows, header_row_idx, header, slno_col, date_col, particol, withdraw_col,
                   deposit_col, cleaned, exit_code, out_dir, out_file, arg, ret>>

\* lines 105-107
BuildAmount ==
    /\ pc = "extracted"
    /\ LET w   == [i \in DOMAIN df.rows |-> clean_number(ColumnOf(df, withdraw_col)[i])]
           df1 == Assign(df, withdraw_col, w)
           d   == [i \in DOMAIN df.rows |-> clean_number(ColumnOf(df1, deposit_col)[i])]
           df2 == Assign(df1, deposit_col, d)
       IN  df' = Assign(df2, AmountName, [i \in DOMAIN df.rows |-> Amount(d[i], w[i])])
    /\ pc' = "amounted"
    /\ UNCHANGED <<rows, header_row_idx, header, slno_col, date_col, particol, withdraw_col,
                   deposit_col, cleaned, exit_code, out_dir, out_file, arg, ret>>

\* lines 112-119
Assemble ==
    /\ pc = "amounted"
    /\ LET picked == IF fabricate_slno
                     THEN InsertFirst(Select(df, <<date_col, particol, AmountName>>), SlNoName,
                                      FabricatedSerials(Len(df.rows)))
                     ELSE Rename(Select(df, <<slno_col, date_col, particol, AmountName>>),
                                 slno_col, SlNoName)
       IN  cleaned' = Rename(Rename(picked, date_col, TranDateName), particol, ParticularsName)
    /\ pc' = "assembled"
    /\ UNCHANGED <<rows, header_row_idx, header, df, slno_col, date_col, particol, withdraw_col,
                   deposit_col, exit_code, out_dir, out_file, arg, ret>>

\* line 120; pd.to_numeric leaves the fabricated integers as they are
FillSerial ==
    /\ pc = "assembled"
    /\ LET col  == ColumnOf(cleaned, SlNoName)
           nums == IF fabricate_slno THEN col ELSE [i \in DOMAIN col |-> ToNumeric(col[i])]
       IN  cleaned' = Assign(cleaned, SlNoName, ForwardFill(nums))
    /\ pc' = "filled"
    /\ UNCHANGED <<rows, header_row_idx, header, df, slno_col, date_col, particol, withdraw_col,
                   deposit_col, exit_code, out_dir, out_file, arg, ret>>

\* line 121; ignore_index=True relabels the rows 0..n-1
Sort ==
    /\ pc = "filled"
    /\ \E p \in SortOrders(ColumnOf(cleaned, SlNoName)) :
          cleaned' = [cleaned EXCEPT !.rows =
                         [k \in DOMAIN cleaned.rows |-> [cleaned.rows[p[k]] EXCEPT !.label = k - 1]]]
    /\ pc' = "sorted"
    /\ UNCHANGED <<rows, header_row_idx, header, df, slno_col, date_col, particol, withdraw_col,
                   deposit_col, exit_code, out_dir, out_file, arg, ret>>

\* lines 126-128; to_csv(index=False) writes the column names and the values only
Save ==
    /\ pc = "sorted"
    /\ out_dir' = TRUE
    /\ out_file' = [state |-> "new", cols |-> cleaned.cols,
                    data  |-> [i \in DOMAIN cleaned.rows |-> cleaned.rows[i].vals]]
    /\ pc' = "saved"
    /\ exit_code' = 0
    /\ UNCHANGED <<rows, header_row_idx, header, df, slno_col, date_col, particol, withdraw_col,
                   deposit_col, cleaned, arg, ret>>

Next ==
    \/ Scan
    \/ ExitNoHeader
    \/ BuildFrame
    \/ IdentifyColumns
    \/ CleanParticulars
    \/ BuildAmount
    \/ Assemble
    \/ FillSerial
    \/ Sort
    \/ Save

Spec == Init /\ [][Next]_vars

(***************************************************************************)
(* The two cell functions on their own, over every short text.             *)
(***************************************************************************)
NoRun ==
    /\ rows = <<>>
    /\ header_row_idx = Running
    /\ header = <<>>
    /\ df = EmptyFrame
    /\ slno_col = None /\ date_col = None /\ particol = None
    /\ withdraw_col = None /\ deposit_col = None
    /\ cleaned = EmptyFrame
    /\ exit_code = Running
    /\ out_dir = FALSE
    /\ out_file = [state |-> "absent", cols |-> <<>>, data |-> <<>>]

RunVars == <<rows, header_row_idx, header, df, slno_col, date_col, particol, withdraw_col,
             deposit_col, cleaned, exit_code, out_dir, out_file>>

MoneyTexts ==
    SeqsUpTo({"0", "5", ".", "-", "a"}, MaxMoneyLen)
        \cup {None, Tx1.wd, Tx2.dep, Tx3.wd, <<"1", "-", "2">>, <<"1", ".", "2", ".", "3">>}

DescTexts ==
    SeqsUpTo({"/", "a", "b"}, MaxDescLen) \cup {None, Tx1.desc, Tx2.desc}

CleanInit == NoRun /\ pc = "money" /\ arg \in MoneyTexts /\ ret = <<>>

ApplyClean ==
    /\ pc = "money"
    /\ ret' = clean_number(arg)
    /\ pc' = "money_cleaned"
    /\ UNCHANGED <<RunVars, arg>>

CleanSpec == CleanInit /\ [][ApplyClean]_vars

SlashInit == NoRun /\ pc = "desc" /\ arg \in DescTexts /\ ret = <<>>

ApplyExtract ==
    /\ pc = "desc"
    /\ ret' = between_third_and_fourth_slash(arg)
    /\ pc' = "desc_extracted"
    /\ UNCHANGED <<RunVars, arg>>

SlashSpec == SlashInit /\ [][ApplyExtract]_vars

(***************************************************************************)
(* Properties.                                                             *)
(***************************************************************************)
Terminal == {"exited", "raised", "saved"}

Identified == {"identified", "extracted", "amounted", "assembled", "filled", "sorted", "saved"}

\* the lines below the header, as read
Data == DataBelow(rows, header_row_idx)

\* the cell that the line of row r holds under the header cell called col
InputCell(r, col) ==
    LET line == Data[r.src]
        pos  == CHOOSE i \in DOMAIN header : header[i] = col
    IN  IF pos <= Len(line) THEN line[pos] ELSE None

NoHeaderRow == \A i \in DOMAIN rows : ~Qualifies(rows[i])

\* the first qualifying row has no cell for one of the four mandatory fields
MandatoryLacking ==
    /\ ~NoHeaderRow
    /\ LET first == CHOOSE i \in DOMAIN rows :
                       Qualifies(rows[i]) /\ \A j \in 1..(i - 1) : ~Qualifies(rows[j])
           cells == NormalizeHeader(rows[first])
       IN  \E kw \in {DateKeywords, PartiKeywords, WithdrawKeywords, DepositKeywords} :
               \A c \in DOMAIN cells : ~MatchesAny(kw, cells[c])

\* C1: when no row qualifies as a header, or a mandatory field has no matching header
\* cell, the run never gets past the column identification, every way it ends is with
\* a nonzero exit status, and the output file and its directory stay as they were.
C1_FailureExitsBeforeWrite ==
    (NoHeaderRow \/ MandatoryLacking) =>
        /\ pc \in {"read", "scanned", "framed", "exited", "raised"}
        /\ pc \in Terminal => exit_code # 0 /\ exit_code # Running
        /\ out_file.state \in {"absent", "old"}
        /\ out_dir = (out_file.state = "old")

C1_Witness ==
    /\ MandatoryLacking
    /\ pc = "exited"
    /\ exit_code = 1
    /\ out_file.state = "absent" /\ ~out_dir

\* row r of frame carries the date and the extracted description of its own input
\* line, and the amount computed from that line's deposit and withdrawal cells
RowFromOwnLine(frame, r, dateName, partiName) ==
    /\ r.vals[Pos(frame, dateName)] = InputCell(r, date_col)
    /\ r.vals[Pos(frame, partiName)] = between_third_and_fourth_slash(InputCell(r, particol))
    /\ r.vals[Pos(frame, AmountName)]
          = clean_number(InputCell(r, deposit_col)) - clean_number(InputCell(r, withdraw_col))

\* C2: in every row, from the moment the amount is built to the written file, amount
\* is the cleaned deposit minus the cleaned withdrawal of the input line that gave
\* the row its date and description, also after forward-fill and sort.
C2_AmountIsDepositMinusWithdrawal ==
    /\ pc = "amounted" =>
          \A i \in DOMAIN df.rows : RowFromOwnLine(df, df.rows[i], date_col, particol)
    /\ pc \in {"assembled", "filled", "sorted", "saved"} =>
          \A i \in DOMAIN cleaned.rows :
              RowFromOwnLine(cleaned, cleaned.rows[i], TranDateName, ParticularsName)
    /\ pc = "saved" =>
          /\ Len(out_file.data) = Len(cleaned.rows)
          /\ \A i \in DOMAIN cleaned.rows : out_file.data[i] = cleaned.rows[i].vals

\* withdrawal "500.00" with deposit "" written as -500.0, in a file whose rows the
\* sort has moved
C2_Witness ==
    /\ pc = "saved"
    /\ \E i \in DOMAIN cleaned.rows :
          /\ InputCell(cleaned.rows[i], withdraw_col) = Tx1.wd
          /\ InputCell(cleaned.rows[i], deposit_col) = <<>>
          /\ out_file.data[i][4] = 0 - 500 * Scale
    /\ \E i, j \in DOMAIN cleaned.rows : i < j /\ cleaned.rows[i].src > cleaned.rows[j].src

\* C3: the rows of the sorted table ascend by Sl. No., and rows with equal Sl. No.
\* keep the order they had before the sort.
C3_AscendingAndStable ==
    pc \in {"sorted", "saved"} =>
        LET k == ColumnOf(cleaned, SlNoName)
        IN  \A i, j \in DOMAIN cleaned.rows : i < j =>
                /\ ~k[i].nan /\ ~k[j].nan
                /\ k[i].v <= k[j].v
                /\ k[i].v = k[j].v => cleaned.rows[i].src < cleaned.rows[j].src

\* the serial cell of row i parses as a number
SerialParses(i) == ~ToNumeric(InputCell(cleaned.rows[i], slno_col)).nan

\* C4: with a serial column, before the sort, a row whose serial cell parses keeps its
\* value; any other row has the value of the nearest row above it whose cell parses,
\* and no value when there is no such row.
C4_ForwardFill ==
    (pc = "filled" /\ ~fabricate_slno) =>
        LET k == ColumnOf(cleaned, SlNoName)
        IN  \A i \in DOMAIN cleaned.rows :
                LET above == {j \in 1..(i - 1) : SerialParses(j)}
                IN  IF SerialParses(i)
                    THEN k[i] = ToNumeric(InputCell(cleaned.rows[i], slno_col))
                    ELSE IF above = {} THEN k[i].nan
                    ELSE k[i] = ToNumeric(InputCell(cleaned.rows[Max(above)], slno_col))

\* the serial cells 1, "", "", 2 filled to 1, 1, 1, 2
C4_Witness ==
    /\ pc = "filled"
    /\ rows = GapExample
    /\ [i \in DOMAIN cleaned.rows |-> InputCell(cleaned.rows[i], slno_col)] = <<<<"1">>, <<>>, <<>>, <<"2">>>>
    /\ ColumnOf(cleaned, SlNoName) = <<Num(Scale), Num(Scale), Num(Scale), Num(2 * Scale)>>

\* C5: with no serial column, the serials are 1..N down the table from the moment they
\* are fabricated, and the sorted and the written table keep the input order.
C5_FabricatedSerials ==
    (pc \in {"assembled", "filled", "sorted", "saved"} /\ fabricate_slno) =>
        /\ \A i \in DOMAIN cleaned.rows :
              /\ cleaned.rows[i].vals[1] = Num(i * Scale)
              /\ \A j \in DOMAIN cleaned.rows : i < j => cleaned.rows[i].src < cleaned.rows[j].src
        /\ cleaned.cols[1] = SlNoName
        /\ pc = "saved" => \A i \in DOMAIN cleaned.rows : out_file.data[i][1] = Num(i * Scale)

C5_Witness ==
    /\ pc = "saved"
    /\ fabricate_slno
    /\ Len(out_file.data) = 2
    /\ out_file.data[2][1] = Num(2 * Scale)

\* a line with no text in any cell
FullyEmpty(line) == \A c \in DOMAIN line : line[c] = <<>>

\* C6: the written table has the four columns Sl. No., Tran Date, Particulars, amount
\* in this order, and one row for each line below the header that is not fully empty.
C6_FourColumnsAndRowCount ==
    pc = "saved" =>
        /\ out_file.cols = <<SlNoName, TranDateName, ParticularsName, AmountName>>
        /\ Len(out_file.data) = Cardinality({i \in DOMAIN Data : ~FullyEmpty(Data[i])})

\* position of the n-th slash of s, Len(s) + 1 when s has fewer
NthSlash(s, n) ==
    LET at == {i \in DOMAIN s : s[i] = "/" /\ Cardinality({j \in 1..i : s[j] = "/"}) = n}
    IN  IF at = {} THEN Len(s) + 1 ELSE CHOOSE i \in at : TRUE

\* C7: a description with at least three slashes gives the text between its third
\* slash and its fourth (or its end); any other description is returned unchanged.
C7_BetweenThirdAndFourthSlash ==
    pc = "desc_extracted" =>
        LET s == Str(arg)
        IN  /\ IF Cardinality({i \in DOMAIN s : s[i] = "/"}) >= 3
               THEN ret = SubSeq(s, NthSlash(s, 3) + 1, NthSlash(s, 4) - 1)
               ELSE ret = arg
            /\ arg = Tx1.desc => ret = <<"G", "R", "O", "C", "E", "R", "Y">>
            /\ arg = Tx2.desc => ret = <<"C", "A", "S", "H", " ", "D", "E", "P", "O", "S", "I", "T">>

C7_Witness ==
    /\ pc = "desc_extracted"
    /\ arg = Tx1.desc
    /\ ret = <<"G", "R", "O", "C", "E", "R", "Y">>

\* the characters of a money cell that are digits, periods or minus signs
Kept(x) ==
    LET Numeric(c) == IsDigit(c) \/ c = "." \/ c = "-"
    IN  SelectSeq(Str(x), Numeric)

\* r reads as a number: an optional leading minus, digits with at most one period,
\* at least one digit
ReadsAsNumber(r) ==
    /\ \A i \in DOMAIN r : r[i] = "-" => i = 1
    /\ Cardinality({i \in DOMAIN r : r[i] = "."}) <= 1
    /\ \E i \in DOMAIN r : IsDigit(r[i])

\* the value of such an r in 1/Scale units: each digit times the weight of its place
RECURSIVE SumOver(_, _, _)
SumOver(r, dot, I) ==
    IF I = {} THEN 0
    ELSE LET i == CHOOSE j \in I : TRUE
             w == IF i < dot THEN Scale * Pow10(dot - i - 1) ELSE Scale \div Pow10(i - dot)
         IN  DigitVal(r[i]) * w + SumOver(r, dot, I \ {i})

ValueOf(r) ==
    LET dots == {i \in DOMAIN r : r[i] = "."}
        dot  == IF dots = {} THEN Len(r) + 1 ELSE CHOOSE i \in dots : TRUE
        mag  == SumOver(r, dot, {i \in DOMAIN r : IsDigit(r[i])})
    IN  IF Len(r) > 0 /\ r[1] = "-" THEN 0 - mag ELSE mag

\* C8: cleaning a money cell always gives a number: 0 when no digit, period or minus
\* sign is left, 0 when what is left does not read as a number, its value otherwise.
C8_CleanIsTotal ==
    pc = "money_cleaned" =>
        /\ ret \in Int
        /\ Kept(arg) = <<>> => ret = 0
        /\ ~ReadsAsNumber(Kept(arg)) => ret = 0
        /\ ReadsAsNumber(Kept(arg)) => ret = ValueOf(Kept(arg))
        /\ arg \in {<<>>, <<"a", "b", "c">>, <<"1", "-", "2">>, <<"1", ".", "2", ".", "3">>, <<"-">>, <<".">>} => ret = 0
        /\ arg = Tx2.dep => ret = 1234 * Scale + Scale \div 2

C8_Witness ==
    /\ pc = "money_cleaned"
    /\ arg = <<Rupee>> \o <<"1", ",", "2", "3", "4", ".", "5", "0">>
    /\ ret = 1234 * Scale + Scale \div 2

\* bound is the leftmost column matching the first keyword that matches any column
BoundByPriority(cols, keywords, bound) ==
    \A n \in DOMAIN keywords :
        (/\ \E c \in DOMAIN cols : Matches(keywords[n], cols[c])
         /\ \A m \in 1..(n - 1) : \A c \in DOMAIN cols : ~Matches(keywords[m], cols[c]))
        => \E c \in DOMAIN cols :
               /\ bound = cols[c]
               /\ Matches(keywords[n], cols[c])
               /\ \A b \in 1..(c - 1) : ~Matches(keywords[n], cols[b])

\* C9 as claimed: each field is bound to the leftmost column matching the first entry
\* of its pattern list that matches any column.
C9_PatternPriority ==
    pc \in Identified =>
        /\ BoundByPriority(header, SlnoKeywords, slno_col)
        /\ BoundByPriority(header, DateKeywords, date_col)
        /\ BoundByPriority(header, PartiKeywords, particol)
        /\ BoundByPriority(header, WithdrawKeywords, withdraw_col)
        /\ BoundByPriority(header, DepositKeywords, deposit_col)

\* bound is the leftmost column matching any keyword, None when there is none
BoundLeftmost(cols, keywords, bound) ==
    IF \E c \in DOMAIN cols : MatchesAny(keywords, cols[c])
    THEN \E c \in DOMAIN cols :
            /\ bound = cols[c]
            /\ MatchesAny(keywords, cols[c])
            /\ \A b \in 1..(c - 1) : ~MatchesAny(keywords, cols[b])
    ELSE bound = None

\* C9 amended: each field is bound to the leftmost column that matches any entry of
\* its pattern list, whatever the place of that entry in the list.
C9_LeftmostOfAnyPattern ==
    pc \in Identified =>
        /\ BoundLeftmost(header, SlnoKeywords, slno_col)
        /\ BoundLeftmost(header, DateKeywords, date_col)
        /\ BoundLeftmost(header, PartiKeywords, particol)
        /\ BoundLeftmost(header, WithdrawKeywords, withdraw_col)
        /\ BoundLeftmost(header, DepositKeywords, deposit_col)

\* "debit" bound for the withdrawal although a column to its right matches "withdraw"
C9_Witness ==
    /\ pc = "identified"
    /\ withdraw_col = <<"d", "e", "b", "i", "t">>
    /\ \E c \in DOMAIN header :
          /\ Matches(WithdrawKeywords[1], header[c])
          /\ \E b \in 1..(c - 1) : header[b] = withdraw_col

\* C10 as claimed: a cleaned money value is never negative.
C10_NeverNegative == pc = "money_cleaned" => ret >= 0

\* C10 amended: a cleaned money value is negative only when the characters kept from
\* the cell start with a minus sign.
C10_NegativeOnlyWithLeadingMinus ==
    (pc = "money_cleaned" /\ (Kept(arg) = <<>> \/ Kept(arg)[1] # "-")) => ret >= 0

C10_Witness ==
    /\ pc = "money_cleaned"
    /\ arg = <<"5", "-">>
    /\ ret = 0

====
